---- MODULE Spec2Model ----
(***************************************************************************)
(* The notes service of src/main.py over the schema of src/models.py.      *)
(* The store is two tables (users, notes).  A handler runs in a worker     *)
(* thread beside other requests and holds nothing in the store between its *)
(* round trips, so a handler is one action per round trip in which it can  *)
(* be overtaken: the dependency that authenticates the caller, then query, *)
(* commit, refresh.  A request between two of its round trips occupies a   *)
(* slot of "pending".                                                      *)
(***************************************************************************)
EXTENDS Integers, FiniteSets, Sequences, TLC

VARIABLES
    users,      \* rows of table "users"
    notes,      \* rows of table "notes"
    now,        \* the clock read by datetime.utcnow
    resp,       \* the response sent by the last handler step (NoResp: none)
    pending,    \* slot -> the request a worker is in the middle of, if any
    plain,      \* history: username -> password given at its registration
    kept        \* history: the notes each user created and has not deleted

vars == <<users, notes, now, resp, pending, plain, kept>>

----------------------------------------------------------------------------
(* Bounds and input domains *)

MaxTime == 1
MaxTimeAuth == 2
MaxNoteId == 2

UserIds == {1, 2}
NoteIds == 1..MaxNoteId

Usernames == {"alice", "bob"}
Emails == {"a@x.com", "b@x.com"}
Passwords == {"pw123", "hunter2"}
Salts == {"salt1", "salt2"}
Titles == {"Grocery", "Todo"}
Contents == {"milk", "eggs"}
ShareIds == {"aB3dE6gH9j", "Zz0Yy1Xx2W"}
Slots == {1, 2}

\* Optional[T]: None is the empty sequence, a value v is <<v>>
None == <<>>
Some(v) == <<v>>
Optional(S) == {None} \cup {Some(v) : v \in S}

\* pydantic request bodies
UserCreate == [username : Usernames, email : Emails, password : Passwords]
NoteCreate == [title : Titles, content : Contents]
NoteUpdate == [title : Optional(Titles), content : Optional(Contents),
               is_public : Optional(BOOLEAN)]

----------------------------------------------------------------------------
(* auth: password hashing and bearer tokens *)

ACCESS_TOKEN_EXPIRE == 1
SECRET_KEY == "server-key"

Digest(salt, password) == <<"digest", salt, password>>

get_password_hash(password, salt) ==
    [salt |-> salt, digest |-> Digest(salt, password)]

verify_password(password, hashed) ==
    Digest(hashed.salt, password) = hashed.digest

\* a signed token: subject, expiration instant, the key that signed it
encode(sub, exp, key) ==
    [kind |-> "jwt", sub |-> sub, exp |-> exp, sig |-> key]

create_access_token(sub) ==
    encode(sub, now + ACCESS_TOKEN_EXPIRE, SECRET_KEY)

\* the token's subject, or None when the token does not verify
decode_token(token) ==
    IF token.kind = "jwt" /\ token.sig = SECRET_KEY /\ now <= token.exp
    THEN Some(token.sub)
    ELSE None

\* the users a token authenticates: empty is Unauthorized
get_current_user(token) ==
    LET sub == decode_token(token)
    IN  IF sub = None THEN {}
        ELSE {u \in users : u.username = sub[1]}

\* What a client can put in the Authorization header.  Issued: the tokens
\* /token can have returned so far, to a registered user at an instant from
\* the registration on.  The others were never signed by the server.
NoToken == [kind |-> "none", sub |-> "", exp |-> 0, sig |-> ""]
Garbage == [kind |-> "garbage", sub |-> "", exp |-> 0, sig |-> ""]
Forged == {encode(u, now + ACCESS_TOKEN_EXPIRE, "other-key") : u \in Usernames}
Issued ==
    UNION {{encode(u.username, t + ACCESS_TOKEN_EXPIRE, SECRET_KEY) :
                t \in u.created_at..now} : u \in users}

----------------------------------------------------------------------------
(* the store *)

Max(S) == IF S = {} THEN 0 ELSE CHOOSE m \in S : \A x \in S : x <= m

\* primary keys the store may hand to a new row: above every key in use
NewIds(rows, Ids) == {i \in Ids : i > Max({r.id : r \in rows})}

\* unique=True on User.username and User.email
UserUnique(user) ==
    \A v \in users : v.username # user.username /\ v.email # user.email

\* (a share_id column without unique=True)
NoteUnique_missing(share_id) == TRUE

\* unique=True on Note.share_id
NoteUnique(share_id) == \A m \in notes : m.share_id # share_id

\* the row a primary key selects, as a set: empty or one row
by_id(note_id) == {n \in notes : n.id = note_id}

isoformat(t) == <<"iso", t>>

----------------------------------------------------------------------------
(* requests in progress *)

Free(slot) == pending[slot] = None

Idle == \A s \in Slots : Free(s)

\* the worker of this slot is in the named handler, before the named round trip
At(slot, op, step) ==
    /\ pending[slot] # None
    /\ pending[slot][1].op = op
    /\ pending[slot][1].step = step

Hold(slot, request) == pending' = [pending EXCEPT ![slot] = Some(request)]

Done(slot) == pending' = [pending EXCEPT ![slot] = None]

----------------------------------------------------------------------------
(* responses *)

NoResp ==
    [op |-> "none", status |-> 0, token |-> NoToken, note_id |-> 0,
     share_id |-> "", username |-> "", body |-> {}]

Message(text) == {[message |-> text]}
Detail(text) == {[detail |-> text]}

\* the body of the 500 sent for an exception no handler catches: plain text
PlainTextResponse(text) == {[text_plain |-> text]}

NoteResponse(note) ==
    [id |-> note.id, title |-> note.title, content |-> note.content,
     is_public |-> note.is_public, share_id |-> note.share_id,
     created_at |-> isoformat(note.created_at),
     updated_at |-> isoformat(note.updated_at)]

\* Depends(auth.get_current_user) failed: no Authorization header, or a
\* token that does not verify
Unauthorized(op, token, note_id) ==
    resp' = [NoResp EXCEPT !.op = op, !.status = 401, !.token = token,
                           !.note_id = note_id,
                           !.body = Detail(IF token = NoToken
                                           THEN "Not authenticated"
                                           ELSE "Could not validate credentials")]

\* HTTPException(status_code=404)
NotFound(op, token, note_id, share_id, text) ==
    resp' = [NoResp EXCEPT !.op = op, !.status = 404, !.token = token,
                           !.note_id = note_id, !.share_id = share_id,
                           !.body = Detail(text)]

\* an exception of the store leaves the handler: 500, and the session's
\* transaction is rolled back
ServerError(op, token, note_id, share_id, username) ==
    resp' = [NoResp EXCEPT !.op = op, !.status = 500, !.token = token,
                           !.note_id = note_id, !.share_id = share_id,
                           !.username = username,
                           !.body = PlainTextResponse("Internal Server Error")]

\* the dependency of the four note handlers, run before the handler's body:
\* the request is answered 401, or goes on with the user the token names
Depends(slot, token, note_id, request) ==
    /\ Free(slot)
    /\ LET auth == get_current_user(token)
       IN  IF auth = {}
           THEN Unauthorized(request.op, token, note_id) /\ UNCHANGED pending
           ELSE /\ Hold(slot, [f \in DOMAIN request \cup {"current_user"} |->
                                  IF f = "current_user"
                                  THEN CHOOSE u \in auth : TRUE
                                  ELSE request[f]])
                /\ resp' = NoResp
    /\ UNCHANGED <<users, notes, now, plain, kept>>

----------------------------------------------------------------------------
(* POST /register *)

\* (the query on the username alone)
register_query_username(user) == {u \in users : u.username = user.username}

\* the handler's query: the users with this username or this email
register_query(user) ==
    {u \in users : u.username = user.username \/ u.email = user.email}

register_conflict(user) ==
    /\ resp' = [NoResp EXCEPT !.op = "register", !.status = 400,
                              !.username = user.username,
                              !.body = Detail("Username or email already registered")]
    /\ UNCHANGED <<users, notes, now, plain, kept>>

\* db.add(db_user); db.commit(): the row is stored unless a unique column
\* rejects it, and then the IntegrityError leaves the handler
register_insert(user, salt) ==
    IF ~UserUnique(user)
    THEN /\ ServerError("register", NoToken, 0, "", user.username)
         /\ UNCHANGED <<users, notes, now, plain, kept>>
    ELSE \E id \in NewIds(users, UserIds) :
         LET db_user == [id |-> id, username |-> user.username,
                         email |-> user.email,
                         hashed_password |-> get_password_hash(user.password, salt),
                         created_at |-> now]
         IN  /\ users' = users \cup {db_user}
             /\ plain' = [plain EXCEPT ![user.username] = Some(user.password)]
             /\ resp' = [NoResp EXCEPT !.op = "register", !.status = 200,
                                       !.username = user.username,
                                       !.body = Message("User created successfully")]
             /\ UNCHANGED <<notes, now, kept>>

\* the handler up to the answer of its query ...
register(slot, user) ==
    /\ Free(slot)
    /\ IF register_query(user) # {}
       THEN register_conflict(user) /\ UNCHANGED pending
       ELSE /\ Hold(slot, [op |-> "register", step |-> "commit", user |-> user])
            /\ resp' = NoResp
            /\ UNCHANGED <<users, notes, now, plain, kept>>

\* ... and from the hash to the commit
register_commit(slot, salt) ==
    /\ At(slot, "register", "commit")
    /\ register_insert(pending[slot][1].user, salt)
    /\ Done(slot)

----------------------------------------------------------------------------
(* POST /token *)

\* (the check of the user alone)
bad_credentials_no_user(found, password) == found = {}

\* "not user or not auth.verify_password(...)"
bad_credentials(found, password) ==
    \/ found = {}
    \/ ~verify_password(password, (CHOOSE u \in found : TRUE).hashed_password)

login(username, password) ==
    LET found == {u \in users : u.username = username}
    IN  IF bad_credentials(found, password)
        THEN /\ resp' = [NoResp EXCEPT !.op = "login", !.status = 401,
                                       !.username = username,
                                       !.body = Detail("Incorrect username or password")]
             /\ UNCHANGED <<users, notes, now, pending, plain, kept>>
        ELSE LET user == CHOOSE u \in found : TRUE
                 access_token == create_access_token(user.username)
             IN  /\ resp' = [NoResp EXCEPT !.op = "login", !.status = 200,
                                           !.username = username,
                                           !.body = {[access_token |-> access_token,
                                                      token_type |-> "bearer"]}]
                 /\ UNCHANGED <<users, notes, now, pending, plain, kept>>

----------------------------------------------------------------------------
(* GET /notes *)

notes_of(current_user) == {n \in notes : n.owner_id = current_user.id}

\* the request up to the answer of its dependency ...
get_notes(slot, token) ==
    Depends(slot, token, 0,
            [op |-> "get_notes", step |-> "query", token |-> token])

\* ... and the handler's body: one query and the answer
get_notes_query(slot) ==
    /\ At(slot, "get_notes", "query")
    /\ LET request == pending[slot][1]
           found == notes_of(request.current_user)
       IN  resp' = [NoResp EXCEPT !.op = "get_notes", !.status = 200,
                                  !.token = request.token,
                                  !.body = {NoteResponse(n) : n \in found}]
    /\ Done(slot)
    /\ UNCHANGED <<users, notes, now, plain, kept>>

----------------------------------------------------------------------------
(* POST /notes *)

\* Column defaults of a new Note row
NewNote(id, note, owner_id, share_id) ==
    [id |-> id, title |-> note.title, content |-> note.content,
     owner_id |-> owner_id, is_public |-> FALSE, share_id |-> share_id,
     created_at |-> now, updated_at |-> now]

\* the request up to the answer of its dependency
create_note(slot, token, note) ==
    Depends(slot, token, 0,
            [op |-> "create_note", step |-> "commit", token |-> token,
             note |-> note])

\* the handler's body up to db.commit(); share_id is what
\* generate_share_id() returns for this request
create_note_commit(slot, share_id) ==
    /\ At(slot, "create_note", "commit")
    /\ LET request == pending[slot][1]
       IN  IF ~NoteUnique(share_id)
           THEN /\ ServerError("create_note", request.token, 0, share_id, "")
                /\ Done(slot)
                /\ UNCHANGED <<notes, kept>>
           ELSE \E id \in NewIds(notes, NoteIds) :
                LET db_note == NewNote(id, request.note, request.current_user.id,
                                       share_id)
                IN  /\ notes' = notes \cup {db_note}
                    /\ kept' = kept \cup {[owner |-> request.current_user.id,
                                            id |-> id, share_id |-> share_id]}
                    /\ Hold(slot, [op |-> "create_note", step |-> "refresh",
                                   token |-> request.token, note_id |-> id,
                                   share_id |-> share_id])
                    /\ resp' = NoResp
    /\ UNCHANGED <<users, now, plain>>

\* db.refresh(db_note) and the answer: the row is read again by its key
create_note_refresh(slot) ==
    /\ At(slot, "create_note", "refresh")
    /\ LET request == pending[slot][1]
           found == by_id(request.note_id)
       IN  IF found = {}
           THEN ServerError("create_note", request.token, request.note_id,
                            request.share_id, "")
           ELSE LET db_note == CHOOSE n \in found : TRUE
                IN  resp' = [NoResp EXCEPT !.op = "create_note", !.status = 200,
                                           !.token = request.token,
                                           !.note_id = request.note_id,
                                           !.share_id = request.share_id,
                                           !.body = {NoteResponse(db_note)}]
    /\ Done(slot)
    /\ UNCHANGED <<users, notes, now, plain, kept>>

----------------------------------------------------------------------------
(* PUT /notes/{id} *)

\* the three "if ... is not None" assignments, on the row as loaded
apply_update(db_note, note_update) ==
    [db_note EXCEPT
        !.title = IF note_update.title # None THEN note_update.title[1] ELSE @,
        !.content = IF note_update.content # None THEN note_update.content[1] ELSE @,
        !.is_public = IF note_update.is_public # None
                      THEN note_update.is_public[1] ELSE @]

\* the columns whose assigned value is not the loaded one
dirty(loaded, changed) ==
    {f \in {"title", "content", "is_public"} : changed[f] # loaded[f]}

\* (an updated_at column without onupdate)
flush_update_no_onupdate(row, loaded, changed) ==
    [f \in DOMAIN row |->
        IF f \in dirty(loaded, changed) THEN changed[f] ELSE row[f]]

\* the UPDATE of db.commit(): it sets the dirty columns of the row with the
\* loaded key, and updated_at by onupdate=datetime.utcnow
flush_update(row, loaded, changed) ==
    [f \in DOMAIN row |->
        IF f \in dirty(loaded, changed) THEN changed[f]
        ELSE IF f = "updated_at" THEN now
        ELSE row[f]]

\* the query of update_note and delete_note: the note with this id among
\* the caller's
own_note(note_id, current_user) ==
    {n \in notes : n.id = note_id /\ n.owner_id = current_user.id}

\* the request up to the answer of its dependency; "at" is the instant at
\* which the request arrived
update_note(slot, token, note_id, note_update) ==
    Depends(slot, token, note_id,
            [op |-> "update_note", step |-> "query", token |-> token,
             note_id |-> note_id, note_update |-> note_update, at |-> now])

\* the handler's body up to the answer of its query
update_note_query(slot) ==
    /\ At(slot, "update_note", "query")
    /\ LET request == pending[slot][1]
           found == own_note(request.note_id, request.current_user)
       IN  IF found = {}
           THEN /\ NotFound("update_note", request.token, request.note_id, "",
                            "Note not found")
                /\ Done(slot)
           ELSE /\ Hold(slot, [op |-> "update_note", step |-> "commit",
                               token |-> request.token,
                               current_user |-> request.current_user,
                               note_id |-> request.note_id,
                               note_update |-> request.note_update,
                               loaded |-> CHOOSE n \in found : TRUE,
                               at |-> request.at])
                /\ resp' = NoResp
    /\ UNCHANGED <<users, notes, now, plain, kept>>

\* the assignments and db.commit(): no UPDATE when no column is dirty; an
\* UPDATE that matches no row raises StaleDataError
update_note_commit(slot) ==
    /\ At(slot, "update_note", "commit")
    /\ LET request == pending[slot][1]
           loaded == request.loaded
           changed == apply_update(loaded, request.note_update)
           found == by_id(loaded.id)
           next == [op |-> "update_note", step |-> "refresh",
                    token |-> request.token,
                    current_user |-> request.current_user,
                    note_id |-> request.note_id,
                    note_update |-> request.note_update, at |-> request.at]
       IN  IF dirty(loaded, changed) = {}
           THEN /\ Hold(slot, next)
                /\ resp' = NoResp
                /\ UNCHANGED notes
           ELSE IF found = {}
           THEN /\ ServerError("update_note", request.token, request.note_id, "", "")
                /\ Done(slot)
                /\ UNCHANGED notes
           ELSE LET row == CHOOSE n \in found : TRUE
                IN  /\ notes' = (notes \ {row}) \cup {flush_update(row, loaded, changed)}
                    /\ Hold(slot, next)
                    /\ resp' = NoResp
    /\ UNCHANGED <<users, now, plain, kept>>

\* db.refresh(db_note) and the answer
update_note_refresh(slot) ==
    /\ At(slot, "update_note", "refresh")
    /\ LET request == pending[slot][1]
           found == by_id(request.note_id)
       IN  IF found = {}
           THEN ServerError("update_note", request.token, request.note_id, "", "")
           ELSE LET db_note == CHOOSE n \in found : TRUE
                IN  resp' = [NoResp EXCEPT !.op = "update_note", !.status = 200,
                                           !.token = request.token,
                                           !.note_id = request.note_id,
                                           !.body = {NoteResponse(db_note)}]
    /\ Done(slot)
    /\ UNCHANGED <<users, notes, now, plain, kept>>

----------------------------------------------------------------------------
(* DELETE /notes/{id} *)

\* (the handler without its current_user dependency: any request goes on, as
\* the note's owner)
delete_note_open(slot, token, note_id) ==
    /\ Free(slot)
    /\ Hold(slot, [op |-> "delete_note", step |-> "query", token |-> token,
                   note_id |-> note_id,
                   current_user |-> [id |-> Max({n.owner_id : n \in by_id(note_id)})]])
    /\ resp' = NoResp
    /\ UNCHANGED <<users, notes, now, plain, kept>>

\* the request up to the answer of its dependency
delete_note(slot, token, note_id) ==
    Depends(slot, token, note_id,
            [op |-> "delete_note", step |-> "query", token |-> token,
             note_id |-> note_id])

\* the handler's body up to the answer of its query
delete_note_query(slot) ==
    /\ At(slot, "delete_note", "query")
    /\ LET request == pending[slot][1]
       IN  IF own_note(request.note_id, request.current_user) = {}
           THEN /\ NotFound("delete_note", request.token, request.note_id, "",
                            "Note not found")
                /\ Done(slot)
           ELSE /\ Hold(slot, [op |-> "delete_note", step |-> "commit",
                               token |-> request.token,
                               current_user |-> request.current_user,
                               note_id |-> request.note_id])
                /\ resp' = NoResp
    /\ UNCHANGED <<users, notes, now, plain, kept>>

\* db.delete(db_note); db.commit(): a DELETE that matches no row is only
\* warned about
delete_note_commit(slot) ==
    /\ At(slot, "delete_note", "commit")
    /\ LET request == pending[slot][1]
       IN  /\ notes' = notes \ by_id(request.note_id)
           /\ kept' = {k \in kept : ~(/\ k.owner = request.current_user.id
                                       /\ k.id = request.note_id)}
           /\ resp' = [NoResp EXCEPT !.op = "delete_note", !.status = 200,
                                     !.token = request.token,
                                     !.note_id = request.note_id,
                                     !.body = Message("Note deleted successfully")]
    /\ Done(slot)
    /\ UNCHANGED <<users, now, plain>>

----------------------------------------------------------------------------
(* GET /shared/{share_id} *)

\* (the query without its is_public condition)
shared_note_private_too(share_id) == {n \in notes : n.share_id = share_id}

shared_note(share_id) ==
    {n \in notes : n.share_id = share_id /\ n.is_public = TRUE}

get_shared_note(share_id) ==
    LET found == shared_note(share_id)
    IN  /\ IF found = {}
           THEN NotFound("get_shared_note", NoToken, 0, share_id,
                         "Note not found or not public")
           ELSE LET note == CHOOSE n \in found : TRUE
                IN  resp' = [NoResp EXCEPT !.op = "get_shared_note", !.status = 200,
                                           !.share_id = share_id,
                                           !.body = {[title |-> note.title,
                                                      content |-> note.content,
                                                      created_at |-> isoformat(note.created_at)]}]
        /\ UNCHANGED <<users, notes, now, pending, plain, kept>>

----------------------------------------------------------------------------
(* time *)

Tick(limit) ==
    /\ now < limit
    /\ now' = now + 1
    /\ UNCHANGED <<users, notes, resp, pending, plain, kept>>

(* specifications *)

Init ==
    /\ users = {}
    /\ notes = {}
    /\ now = 0
    /\ resp = NoResp
    /\ pending = [s \in Slots |-> None]
    /\ plain = [u \in Usernames |-> None]
    /\ kept = {}

\* Every specification runs all seven handlers; they differ in the requests
\* that are tried, in the requests that may overlap and in whether the clock
\* advances.  Where requests run one at a time, one starts when no other is
\* in progress.

Alice == [username |-> "alice", email |-> "a@x.com", password |-> "pw123"]
Bob == [username |-> "bob", email |-> "b@x.com", password |-> "hunter2"]

\* every client logs in right before its request, or sends no token
Fresh == {create_access_token(u.username) : u \in users} \cup {NoToken}

\* whatever a client can send
Bearers == Issued \cup Forged \cup {NoToken, Garbage}

Grocery == [title |-> "Grocery", content |-> "milk"]

Body(title, content, is_public) ==
    [title |-> title, content |-> content, is_public |-> is_public]

\* bodies of PUT /notes/{id}: no field, each field alone with each of its
\* values, and all three fields
NoteUpdates ==
    {u \in NoteUpdate :
        \/ Cardinality({f \in {"title", "content", "is_public"} : u[f] # None}) <= 1
        \/ u = Body(Some("Todo"), Some("eggs"), Some(TRUE))}

\* Two owners and their notes; requests run one at a time, within one instant.
Next ==
    \/ Idle /\ \E slot \in {1}, user \in {Alice, Bob} : register(slot, user)
    \/ \E slot \in {1}, salt \in {"salt1"} : register_commit(slot, salt)
    \/ Idle /\ \E user \in {Alice, Bob} : login(user.username, user.password)
    \/ Idle /\ \E slot \in {1}, token \in Fresh : get_notes(slot, token)
    \/ \E slot \in {1} : get_notes_query(slot)
    \/ Idle /\ \E slot \in {1}, token \in Fresh, note \in {Grocery} :
          create_note(slot, token, note)
    \/ \E slot \in {1}, share_id \in ShareIds : create_note_commit(slot, share_id)
    \/ \E slot \in {1} : create_note_refresh(slot)
    \/ Idle /\ \E slot \in {1}, token \in Fresh, note_id \in NoteIds, note_update \in NoteUpdates :
          update_note(slot, token, note_id, note_update)
    \/ \E slot \in {1} : update_note_query(slot)
    \/ \E slot \in {1} : update_note_commit(slot)
    \/ \E slot \in {1} : update_note_refresh(slot)
    \/ Idle /\ \E slot \in {1}, token \in Fresh, note_id \in NoteIds :
          delete_note(slot, token, note_id)
    \/ \E slot \in {1} : delete_note_query(slot)
    \/ \E slot \in {1} : delete_note_commit(slot)
    \/ Idle /\ \E share_id \in ShareIds : get_shared_note(share_id)

Spec == Init /\ [][Next]_vars

\* bodies of the requests of two clients editing the same note: no field, the
\* content as created, another content, and the title with is_public
Edits ==
    {Body(None, None, None), Body(None, Some("milk"), None),
     Body(None, Some("eggs"), None), Body(Some("Todo"), None, Some(TRUE))}

\* One owner whose requests overlap, while the clock advances.  With one
\* share_id at most one note is stored at a time, and its id is 1.
NextEdit ==
    \/ \E slot \in Slots, user \in {Alice} : register(slot, user)
    \/ \E slot \in Slots, salt \in {"salt1"} : register_commit(slot, salt)
    \/ \E user \in {Alice} : login(user.username, user.password)
    \/ \E slot \in Slots, token \in Fresh : get_notes(slot, token)
    \/ \E slot \in Slots : get_notes_query(slot)
    \/ \E slot \in Slots, token \in Fresh, note \in {Grocery} :
          create_note(slot, token, note)
    \/ \E slot \in Slots, share_id \in {"aB3dE6gH9j"} : create_note_commit(slot, share_id)
    \/ \E slot \in Slots : create_note_refresh(slot)
    \/ \E slot \in Slots, token \in Fresh, note_id \in {1}, note_update \in Edits :
          update_note(slot, token, note_id, note_update)
    \/ \E slot \in Slots : update_note_query(slot)
    \/ \E slot \in Slots : update_note_commit(slot)
    \/ \E slot \in Slots : update_note_refresh(slot)
    \/ \E slot \in Slots, token \in Fresh, note_id \in {1} :
          delete_note(slot, token, note_id)
    \/ \E slot \in Slots : delete_note_query(slot)
    \/ \E slot \in Slots : delete_note_commit(slot)
    \/ \E share_id \in {"aB3dE6gH9j"} : get_shared_note(share_id)
    \/ Tick(MaxTime)

SpecEdit == Init /\ [][NextEdit]_vars

\* Two owners whose requests overlap, within one instant.
NextOwners ==
    \/ \E slot \in Slots, user \in {Alice, Bob} : register(slot, user)
    \/ \E slot \in Slots, salt \in {"salt1"} : register_commit(slot, salt)
    \/ \E user \in {Alice, Bob} : login(user.username, user.password)
    \/ \E slot \in Slots, token \in Fresh : get_notes(slot, token)
    \/ \E slot \in Slots : get_notes_query(slot)
    \/ \E slot \in Slots, token \in Fresh, note \in {Grocery} :
          create_note(slot, token, note)
    \/ \E slot \in Slots, share_id \in {"aB3dE6gH9j"} : create_note_commit(slot, share_id)
    \/ \E slot \in Slots : create_note_refresh(slot)
    \/ \E slot \in Slots, token \in Fresh, note_id \in NoteIds, note_update \in {Body(Some("Todo"), None, None)} :
          update_note(slot, token, note_id, note_update)
    \/ \E slot \in Slots : update_note_query(slot)
    \/ \E slot \in Slots : update_note_commit(slot)
    \/ \E slot \in Slots : update_note_refresh(slot)
    \/ \E slot \in Slots, token \in Fresh, note_id \in NoteIds :
          delete_note(slot, token, note_id)
    \/ \E slot \in Slots : delete_note_query(slot)
    \/ \E slot \in Slots : delete_note_commit(slot)
    \/ \E share_id \in {"aB3dE6gH9j"} : get_shared_note(share_id)

SpecOwners == Init /\ [][NextOwners]_vars

\* Every kind of token, while the clock runs past the tokens' expiration;
\* requests run one at a time.
NextAuth ==
    \/ Idle /\ \E slot \in {1}, user \in {Alice, Bob} : register(slot, user)
    \/ \E slot \in {1}, salt \in {"salt1"} : register_commit(slot, salt)
    \/ Idle /\ \E user \in {Alice, Bob} : login(user.username, user.password)
    \/ Idle /\ \E slot \in {1}, token \in Bearers : get_notes(slot, token)
    \/ \E slot \in {1} : get_notes_query(slot)
    \/ Idle /\ \E slot \in {1}, token \in Bearers, note \in {Grocery} :
          create_note(slot, token, note)
    \/ \E slot \in {1}, share_id \in {"aB3dE6gH9j"} : create_note_commit(slot, share_id)
    \/ \E slot \in {1} : create_note_refresh(slot)
    \/ Idle /\ \E slot \in {1}, token \in Bearers, note_id \in NoteIds, note_update \in {Body(Some("Todo"), None, None)} :
          update_note(slot, token, note_id, note_update)
    \/ \E slot \in {1} : update_note_query(slot)
    \/ \E slot \in {1} : update_note_commit(slot)
    \/ \E slot \in {1} : update_note_refresh(slot)
    \/ Idle /\ \E slot \in {1}, token \in Bearers, note_id \in NoteIds :
          delete_note(slot, token, note_id)
    \/ \E slot \in {1} : delete_note_query(slot)
    \/ \E slot \in {1} : delete_note_commit(slot)
    \/ Idle /\ \E share_id \in {"aB3dE6gH9j"} : get_shared_note(share_id)
    \/ Tick(MaxTimeAuth)

SpecAuth == Init /\ [][NextAuth]_vars

\* Every registration and every login; requests run one at a time.
NextLogin ==
    \/ Idle /\ \E slot \in {1}, user \in UserCreate : register(slot, user)
    \/ \E slot \in {1}, salt \in Salts : register_commit(slot, salt)
    \/ Idle /\ \E username \in Usernames, password \in Passwords : login(username, password)
    \/ Idle /\ \E slot \in {1}, token \in Fresh : get_notes(slot, token)
    \/ \E slot \in {1} : get_notes_query(slot)
    \/ Idle /\ \E slot \in {1}, token \in Fresh, note \in {Grocery} :
          create_note(slot, token, note)
    \/ \E slot \in {1}, share_id \in {"aB3dE6gH9j"} : create_note_commit(slot, share_id)
    \/ \E slot \in {1} : create_note_refresh(slot)
    \/ Idle /\ \E slot \in {1}, token \in Fresh, note_id \in NoteIds, note_update \in {Body(Some("Todo"), None, None)} :
          update_note(slot, token, note_id, note_update)
    \/ \E slot \in {1} : update_note_query(slot)
    \/ \E slot \in {1} : update_note_commit(slot)
    \/ \E slot \in {1} : update_note_refresh(slot)
    \/ Idle /\ \E slot \in {1}, token \in Fresh, note_id \in NoteIds :
          delete_note(slot, token, note_id)
    \/ \E slot \in {1} : delete_note_query(slot)
    \/ \E slot \in {1} : delete_note_commit(slot)
    \/ Idle /\ \E share_id \in {"aB3dE6gH9j"} : get_shared_note(share_id)

SpecLogin == Init /\ [][NextLogin]_vars

\* Two /register requests may overlap.  The third registrant has Alice's
\* username and Bob's email.
Mallory == [username |-> "alice", email |-> "b@x.com", password |-> "hunter2"]

NextConc ==
    \/ \E slot \in Slots, user \in {Alice, Bob, Mallory} : register(slot, user)
    \/ \E slot \in Slots, salt \in {"salt1"} : register_commit(slot, salt)
    \/ Idle /\ \E user \in {Alice, Bob} : login(user.username, user.password)
    \/ Idle /\ \E slot \in {1}, token \in Fresh : get_notes(slot, token)
    \/ \E slot \in {1} : get_notes_query(slot)
    \/ Idle /\ \E slot \in {1}, token \in Fresh, note \in {Grocery} :
          create_note(slot, token, note)
    \/ \E slot \in {1}, share_id \in {"aB3dE6gH9j"} : create_note_commit(slot, share_id)
    \/ \E slot \in {1} : create_note_refresh(slot)
    \/ Idle /\ \E slot \in {1}, token \in Fresh, note_id \in NoteIds, note_update \in {Body(Some("Todo"), None, None)} :
          update_note(slot, token, note_id, note_update)
    \/ \E slot \in {1} : update_note_query(slot)
    \/ \E slot \in {1} : update_note_commit(slot)
    \/ \E slot \in {1} : update_note_refresh(slot)
    \/ Idle /\ \E slot \in {1}, token \in Fresh, note_id \in NoteIds :
          delete_note(slot, token, note_id)
    \/ \E slot \in {1} : delete_note_query(slot)
    \/ \E slot \in {1} : delete_note_commit(slot)
    \/ Idle /\ \E share_id \in {"aB3dE6gH9j"} : get_shared_note(share_id)

SpecConc == Init /\ [][NextConc]_vars

----------------------------------------------------------------------------
(* Properties *)

\* the user a token authenticates, as a set: empty or one user
Caller(token) == get_current_user(token)

\* the user a token names
Subject(token) == {u \in users : u.username = token.sub}

OwnerOf(note) == {u \in users : u.id = note.owner_id}

PublicWith(share_id) == {n \in notes : n.share_id = share_id /\ n.is_public}

\* this step takes a request of the named handler past its first query
Accepts(slot, op) ==
    /\ Free(slot)
    /\ pending'[slot] # None
    /\ pending'[slot][1].op = op

\* this step is the named round trip of the request in the slot
Runs(slot, op, step) ==
    /\ At(slot, op, step)
    /\ pending'[slot] # pending[slot]

\* this step answers a request at its dependency
AnswersAtOnce(ops) ==
    /\ resp'.op \in ops
    /\ pending' = pending
    /\ now' = now

\* C1 as claimed: an update_note or delete_note of user B on the id of a note
\* that is another user's is answered 404 at its query, and no step of an
\* update_note or delete_note request changes or removes a note of a user
\* other than the caller.
C1_OtherOwnerNotFound ==
    [][\A slot \in Slots, op \in {"update_note", "delete_note"} :
          /\ Runs(slot, op, "query") =>
                \A n \in by_id(pending[slot][1].note_id) :
                    n.owner_id # pending[slot][1].current_user.id =>
                        resp'.status = 404 /\ notes' = notes /\ users' = users
          /\ \A step \in {"query", "commit", "refresh"} :
                Runs(slot, op, step) =>
                    \A n \in notes :
                        n.owner_id # pending[slot][1].current_user.id =>
                            n \in notes']_vars

\* C1 scenario: Bob's update of Alice's note was answered 404 and the note is there
C1_Witness ==
    /\ resp.op = "update_note"
    /\ resp.status = 404
    /\ \E b \in Subject(resp.token), n \in notes :
          n.id = resp.note_id /\ n.owner_id # b.id /\ OwnerOf(n) # {}

\* C2: the answer of get_shared_note(s) is the title and content of the note
\* with share_id s when that note exists and is public, and 404 otherwise; a
\* note is not public when it is inserted.
C2_SharedIffPublic ==
    /\ [](resp.op = "get_shared_note" =>
            /\ resp.status \in {200, 404}
            /\ resp.status = 200 <=> PublicWith(resp.share_id) # {}
            /\ resp.status = 200 =>
                  \E n \in PublicWith(resp.share_id) :
                      /\ PublicWith(resp.share_id) = {n}
                      /\ resp.body = {[title |-> n.title, content |-> n.content,
                                       created_at |-> isoformat(n.created_at)]})
    /\ [][\A m \in notes' : by_id(m.id) = {} => ~m.is_public]_vars

\* C2 witness: the share_id of a note that exists, has been updated and is
\* private is answered 404, while the other note is public
C2_Witness ==
    /\ resp.op = "get_shared_note"
    /\ resp.status = 404
    /\ \E n \in notes, m \in notes :
          /\ n.share_id = resp.share_id
          /\ ~n.is_public
          /\ n.title = "Todo"
          /\ m.is_public

NotesOwnedBy(u) == {n \in notes : n.owner_id = u.id}

\* C5: no two notes have the same share_id; a create_note whose generated
\* share_id is that of an existing note is answered with the store's error
\* and adds no note (the handler does not try another value).
C5_ShareIdUnique ==
    /\ [](\A n \in notes, m \in notes : n.share_id = m.share_id => n = m)
    /\ [][\A slot \in Slots :
            Runs(slot, "create_note", "commit") =>
                IF pending'[slot] = None
                THEN /\ resp'.status = 500
                     /\ \E n \in notes : n.share_id = resp'.share_id
                     /\ notes' = notes
                ELSE /\ \A n \in notes : n.share_id # pending'[slot][1].share_id
                     /\ \E m \in notes' :
                           /\ m.share_id = pending'[slot][1].share_id
                           /\ m \notin notes
                           /\ notes' = notes \cup {m}]_vars

\* C5 witness: a create_note drew the share_id of an existing note
C5_Witness ==
    /\ resp.op = "create_note"
    /\ resp.status = 500
    /\ \E n \in notes : n.share_id = resp.share_id
    /\ Cardinality(notes) = 1

\* the notes user u created and has not deleted
KeptBy(u) == {k \in kept : k.owner = u.id}

\* C8 as claimed: the answer of get_notes to user U lists exactly the notes
\* that exist and are owned by U, each with its title, content, is_public and
\* share_id, and these are exactly the notes U created and has not deleted.
C8_ListsOwnNotes ==
    (resp.op = "get_notes" /\ resp.status = 200) =>
        /\ Subject(resp.token) # {}
        /\ \A u \in Subject(resp.token) :
              /\ {r.id : r \in resp.body} = {n.id : n \in NotesOwnedBy(u)}
              /\ Cardinality(resp.body) = Cardinality(NotesOwnedBy(u))
              /\ \A r \in resp.body : \E n \in NotesOwnedBy(u) :
                    /\ r.id = n.id
                    /\ r.title = n.title
                    /\ r.content = n.content
                    /\ r.is_public = n.is_public
                    /\ r.share_id = n.share_id
              /\ \A k \in KeptBy(u) : \E r \in resp.body :
                    r.id = k.id /\ r.share_id = k.share_id
              /\ \A r \in resp.body : \E k \in KeptBy(u) :
                    r.id = k.id /\ r.share_id = k.share_id

\* C8 scenario: get_notes answered with the one note the caller created and
\* has not deleted
C8_Witness ==
    /\ resp.op = "get_notes"
    /\ resp.status = 200
    /\ Cardinality(resp.body) = 1
    /\ \E u \in Subject(resp.token) :
          /\ Cardinality(KeptBy(u)) = 1
          /\ \A k \in KeptBy(u) : \E r \in resp.body : r.id = k.id

\* the value a field has after a PUT whose body gives it as given
Updated(given, old) == IF given # None THEN given[1] ELSE old

Fields == {"title", "content", "is_public"}

\* C9 as claimed: when update_note has written without an error, the note has
\* each of title, content and is_public that the body supplies at the supplied
\* value; a field of a note changes only by an update_note on that note whose
\* body supplies it; the note's id, owner, share_id and created_at never
\* change while it exists; no user changes.
C9_UpdateFrame ==
    [][/\ \A slot \in Slots :
             (Runs(slot, "update_note", "commit") /\ resp'.status # 500) =>
                 /\ users' = users
                 /\ \A m \in notes' :
                       m.id = pending[slot][1].note_id =>
                           \A f \in Fields :
                               m[f] = Updated(pending[slot][1].note_update[f], m[f])
       /\ \A n \in notes, m \in notes' :
             m.id = n.id =>
                 /\ m.owner_id = n.owner_id
                 /\ m.share_id = n.share_id
                 /\ m.created_at = n.created_at
                 /\ \A f \in Fields :
                       m[f] # n[f] =>
                           \E slot \in Slots :
                               /\ Runs(slot, "update_note", "commit")
                               /\ pending[slot][1].note_id = n.id
                               /\ pending[slot][1].note_update[f] = Some(m[f])]_vars

\* C10 as claimed: when update_note is answered 200 the note's updated_at is
\* an instant of the call, not one before the request arrived.
C10_EveryCall ==
    [][\A slot \in Slots :
          (Runs(slot, "update_note", "refresh") /\ resp'.status = 200) =>
              \A m \in by_id(pending[slot][1].note_id) :
                  m.updated_at >= pending[slot][1].at]_vars

\* C10: every step that changes the stored title, content or is_public of a
\* note sets the note's updated_at to the instant of the write; updated_at
\* changes only when the commit of an update_note on that note writes it, and
\* then to the instant of the write; created_at never changes; an update_note
\* answered 200 carries the stored created_at and updated_at.
C10_UpdatedAtOnChange ==
    [][/\ \A n \in notes, m \in notes' :
             m.id = n.id =>
                 /\ m.created_at = n.created_at
                 /\ (\E f \in Fields : m[f] # n[f]) => m.updated_at = now
                 /\ m.updated_at # n.updated_at =>
                       /\ m.updated_at = now
                       /\ \E slot \in Slots :
                             /\ Runs(slot, "update_note", "commit")
                             /\ pending[slot][1].note_id = n.id
       /\ \A slot \in Slots :
             (Runs(slot, "update_note", "refresh") /\ resp'.status = 200) =>
                 \A r \in resp'.body :
                     \E n \in by_id(pending[slot][1].note_id) :
                         /\ r.created_at = isoformat(n.created_at)
                         /\ r.updated_at = isoformat(n.updated_at)]_vars

\* C10 witness: an update at a later instant than the creation wrote the title
\* and is_public and refreshed updated_at
C10_Witness ==
    /\ resp.op = "update_note"
    /\ resp.status = 200
    /\ \E n \in notes :
          /\ n.id = resp.note_id
          /\ n.title = "Todo"
          /\ n.is_public
          /\ n.updated_at = now
          /\ n.created_at < now

\* a token /token returned, before its expiration instant has passed
Valid(token) == token \in Issued /\ now <= token.exp

\* C6: get_notes, create_note, update_note and delete_note go on to the
\* handler's body only for a token that /token returned and that has not
\* expired, as the user it names; with any other token (none, malformed,
\* signed with another key, expired) the answer is 401 and no user and no note
\* changes.  register and get_shared_note never answer 401.
C6_TokenRequired ==
    [][/\ \A slot \in Slots,
            op \in {"get_notes", "create_note", "update_note", "delete_note"} :
             Accepts(slot, op) =>
                 /\ Valid(pending'[slot][1].token)
                 /\ pending'[slot][1].current_user \in Subject(pending'[slot][1].token)
       /\ AnswersAtOnce({"get_notes", "create_note", "update_note", "delete_note"}) =>
             /\ ~Valid(resp'.token)
             /\ resp'.status = 401
             /\ users' = users /\ notes' = notes
       /\ (/\ resp'.op \in {"get_notes", "create_note", "update_note", "delete_note"}
           /\ resp'.status # 401
           /\ now' = now) =>
             \E slot \in Slots :
                 /\ pending[slot] # None
                 /\ pending'[slot] = None
                 /\ pending[slot][1].op = resp'.op
                 /\ pending[slot][1].token = resp'.token
       /\ resp'.op \in {"register", "get_shared_note"} => resp'.status # 401]_vars

\* C6 witness: the owner's update with an expired token was answered 401
C6_Witness ==
    /\ resp.op = "update_note"
    /\ resp.status = 401
    /\ resp.token \in Issued
    /\ resp.token.exp < now
    /\ \E u \in Subject(resp.token), n \in notes :
          n.id = resp.note_id /\ n.owner_id = u.id /\ n.title = "Grocery"

\* a user with this username or this email is stored
Taken(user) == \E u \in users : u.username = user.username \/ u.email = user.email

\* C3 (requests run one at a time): no two users have the same username or
\* the same email; a register whose username or email is that of an existing
\* user is answered 400, is taken no further and leaves the users as they
\* are; no register is answered with the store's error.
C3_RegisterConflict ==
    /\ [](\A u \in users, v \in users :
             (u.username = v.username \/ u.email = v.email) => u = v)
    /\ [][/\ \A slot \in Slots :
                Accepts(slot, "register") => ~Taken(pending'[slot][1].user)
          /\ resp'.op = "register" =>
                /\ resp'.status \in {200, 400}
                /\ resp'.status = 400 => users' = users /\ notes' = notes
          /\ \A user \in UserCreate :
                \/ ~Taken(user)
                \/ resp'.status = 400 /\ resp'.username = user.username
                \/ ~register(1, user)]_vars

\* C3 witness: a registration under a new username was answered 400 (its
\* email is taken)
C3_Witness ==
    /\ resp.op = "register"
    /\ resp.status = 400
    /\ users # {}
    /\ \A u \in users : u.username # resp.username

\* C7: login answers 200 with a token whose subject is the username exactly
\* when the username is registered and the password is the one given at its
\* registration; otherwise it answers 401 without a token.  It changes no user
\* and no note.
C7_LoginIffRegisteredPassword ==
    [][resp'.op = "login" =>
        \A password \in Passwords :
            login(resp'.username, password) =>
                /\ users' = users /\ notes' = notes
                /\ IF plain[resp'.username] = Some(password)
                   THEN /\ resp'.status = 200
                        /\ \E r \in resp'.body :
                              /\ resp'.body = {r}
                              /\ r.access_token.sub = resp'.username
                              /\ Valid(r.access_token)
                   ELSE /\ resp'.status = 401
                        /\ \A r \in resp'.body : "access_token" \notin DOMAIN r]_vars

\* C7 witness: a login of a registered user was answered 401 (wrong password)
C7_Witness ==
    /\ resp.op = "login"
    /\ resp.status = 401
    /\ plain[resp.username] # None

\* C4 as claimed: when the commit of a register request meets a user with its
\* username or email, stored since the request's query, the request is
\* answered 400 as by the query's check, and no user is added.
C4_CommitConflictIs400 ==
    [][\A slot \in Slots :
          (Runs(slot, "register", "commit") /\ Taken(pending[slot][1].user)) =>
              resp'.status = 400 /\ users' = users]_vars

\* C4 scenario: a register request whose query found no one is refused at its
\* commit, an overlapping request having stored its username meanwhile.
C4_Witness ==
    /\ resp.op = "register"
    /\ resp.status = 500
    /\ \E u \in users : u.username = resp.username

====
